---- MODULE Spec2Model ----
(***************************************************************************)
(* State machine of the duplex audio session in src/App.tsx: the connect   *)
(* attempt (connectToGemini / initializeAudio), the four transport         *)
(* callbacks (onopen, onmessage, onclose, onerror), the capture callback   *)
(* (onaudioprocess), the playback scheduler inside onmessage, the          *)
(* transcript accumulators and disconnect.                                 *)
(*                                                                         *)
(* Every await of the source is a suspension point: the code up to the     *)
(* await is one action, its continuation another.  The transport, the      *)
(* microphone, the audio clock and the decoder are the environment and     *)
(* act nondeterministically.                                               *)
(***************************************************************************)
EXTENDS Integers, Sequences, FiniteSets, TLC

\* ------------------------------------------------------------------ bounds
MaxAttempts == 2      \* connect requests that pass the API-key check
MaxMsgs == 3          \* inbound messages delivered over all sessions
MaxChunks == 2        \* captured chunks that reach the session promise
MaxClock == 2         \* ticks of the output clock
MaxKeyLogs == 2       \* connect requests made without an API key
PlaybackAttempts == 1 \* connect attempts in SpecPlayback
CaptureAttempts == 1  \* connect attempts in SpecCapture
TranscriptAttempts == 1 \* connect attempts in SpecTranscript
MaxEpochs == 4        \* resets counted while disconnect is repeated
RedisconnectAttempts == 1 \* connect attempts in SpecRedisconnect
GreetingAttempts == 1 \* connect attempts in SpecGreeting

Attempts == 1..MaxAttempts

\* ------------------------------------------------------------- message data
NoText == <<>>
InFrags == {<<"a">>, <<"b">>}
OutFrags == {<<"c">>}
NoAudio == 0
NoName == ""
Names == {NoName, "Ahmet"}
BadAudio == -1
Durations == {1, 2}

\* LiveServerMessage: the fields onmessage reads (all optional).
Messages ==
  [out : OutFrags \cup {NoText}, inp : InFrags \cup {NoText}, tc : BOOLEAN,
   audio : Durations \cup {NoAudio, BadAudio}, intr : BOOLEAN]

NoMsg == [out |-> NoText, inp |-> NoText, tc |-> FALSE, audio |-> NoAudio, intr |-> FALSE]

\* ------------------------------------------------------------------- state
VARIABLES
  apiKey,                        \* API_KEY is set (fixed for a run)
  connectionState, logs, isMuted, callerName, \* React state
  inputAudioContextRef, outputAudioContextRef, outputAnalyserRef,
  nextStartTimeRef, sourcesRef, sessionPromiseRef,
  currentInputTranscriptionRef, currentOutputTranscriptionRef, streamRef,
  pc,                            \* where each connect attempt is suspended
  capMuted,                      \* isMuted as closed over by each attempt
  capName,                       \* callerName as closed over by each attempt
  stream, inCtx, outCtx,         \* the devices each attempt acquired
  tr, pr,                        \* each attempt's transport and session promise
  queued,                        \* .then callbacks waiting on a pending promise
  decoding,                      \* onmessage invocations suspended in decodeAudioData
  now,                           \* currentTime of the output clock
  nAttempts, nMsgs, nChunks, epoch,          \* counters (history)
  started, sent, gIn, gOut, afterIntr, last  \* history

progVars == <<apiKey, connectionState, logs, isMuted, callerName, inputAudioContextRef,
              outputAudioContextRef, outputAnalyserRef, nextStartTimeRef, sourcesRef,
              sessionPromiseRef, currentInputTranscriptionRef,
              currentOutputTranscriptionRef, streamRef>>
envVars == <<pc, capMuted, capName, stream, inCtx, outCtx, tr, pr, queued, decoding, now>>
histVars == <<nAttempts, nMsgs, nChunks, epoch, started, sent, gIn, gOut, afterIntr, last>>
vars == <<progVars, envVars, histVars>>

\* --------------------------------------------------------------- helpers
\* The clock alone, with no regard to the time already scheduled.
ClockOnly(x, y) == y

Max(x, y) == IF x >= y THEN x ELSE y

\* A next start time that is not moved past the fragment just started.
stay(t, dur) == t

\* nextStartTimeRef.current += audioBuffer.duration
advance(t, dur) == t + dur

LogEntry(sender, text) == [sender |-> sender, text |-> text]

\* An addLog that appends its entry twice.
addLogTwice(l, sender, text) == Append(Append(l, LogEntry(sender, text)), LogEntry(sender, text))

addLog(l, sender, text) == Append(l, LogEntry(sender, text))

Ev(op, a, m) == [op |-> op, a |-> a, m |-> m]

Init ==
  /\ apiKey \in BOOLEAN
  /\ connectionState = "disconnected"
  /\ logs = <<>>
  /\ isMuted = FALSE
  /\ callerName = NoName
  /\ inputAudioContextRef = 0
  /\ outputAudioContextRef = 0
  /\ outputAnalyserRef = 0
  /\ nextStartTimeRef = 0
  /\ sourcesRef = {}
  /\ sessionPromiseRef = 0
  /\ currentInputTranscriptionRef = NoText
  /\ currentOutputTranscriptionRef = NoText
  /\ streamRef = 0
  /\ pc = [a \in Attempts |-> "idle"]
  /\ capMuted = [a \in Attempts |-> FALSE]
  /\ capName = [a \in Attempts |-> NoName]
  /\ stream = [a \in Attempts |-> "none"]
  /\ inCtx = [a \in Attempts |-> "none"]
  /\ outCtx = [a \in Attempts |-> "none"]
  /\ tr = [a \in Attempts |-> "none"]
  /\ pr = [a \in Attempts |-> "none"]
  /\ queued = [a \in Attempts |-> <<>>]
  /\ decoding = {}
  /\ now = 0
  /\ nAttempts = 0
  /\ nMsgs = 0
  /\ nChunks = 0
  /\ epoch = 0
  /\ started = <<>>
  /\ sent = <<>>
  /\ gIn = [a \in Attempts |-> NoText]
  /\ gOut = [a \in Attempts |-> NoText]
  /\ afterIntr = FALSE
  /\ last = Ev("init", 0, NoMsg)

\* ------------------------------------------------------- connect attempt
\* Both buttons offered in every state.
AlwaysOffered == TRUE

\* The connect button is rendered only in these states (the other button is disconnect).
CanConnect == connectionState \in {"disconnected", "error"}

\* connectToGemini without an API key: one log entry and return.
ConnectNoKey ==
  /\ CanConnect
  /\ ~apiKey
  /\ Len(logs) < MaxKeyLogs
  /\ logs' = addLog(logs, "system", <<"API Key eksik">>)
  /\ last' = Ev("ConnectNoKey", 0, NoMsg)
  /\ UNCHANGED <<apiKey, callerName, connectionState, isMuted, inputAudioContextRef,
                 outputAudioContextRef, outputAnalyserRef, nextStartTimeRef, sourcesRef,
                 sessionPromiseRef, currentInputTranscriptionRef,
                 currentOutputTranscriptionRef, streamRef>>
  /\ UNCHANGED envVars
  /\ UNCHANGED <<nAttempts, nMsgs, nChunks, epoch, started, sent, gIn, gOut, afterIntr>>

\* connectToGemini up to the await inside initializeAudio (getUserMedia).
\* The callbacks created by this call close over this render's isMuted.
Connect ==
  /\ CanConnect
  /\ apiKey
  /\ nAttempts < MaxAttempts
  /\ LET a == nAttempts + 1 IN
       /\ connectionState' = "connecting"
       /\ pc' = [pc EXCEPT ![a] = "mic"]
       /\ capMuted' = [capMuted EXCEPT ![a] = isMuted]
       /\ capName' = [capName EXCEPT ![a] = callerName]
       /\ nAttempts' = a
       /\ last' = Ev("Connect", a, NoMsg)
  /\ UNCHANGED <<apiKey, callerName, logs, isMuted, inputAudioContextRef, outputAudioContextRef,
                 outputAnalyserRef, nextStartTimeRef, sourcesRef, sessionPromiseRef,
                 currentInputTranscriptionRef, currentOutputTranscriptionRef, streamRef>>
  /\ UNCHANGED <<stream, inCtx, outCtx, tr, pr, queued, decoding, now>>
  /\ UNCHANGED <<nMsgs, nChunks, epoch, started, sent, gIn, gOut, afterIntr>>

\* The rest of connectToGemini once initializeAudio has returned (it returns
\* normally on failure too): ai.live.connect either throws, which the catch turns
\* into the error state and a log entry, or returns the session promise.
liveConnect(a, st, lg, throws) ==
  /\ pc' = [pc EXCEPT ![a] = "done"]
  /\ IF throws
       THEN /\ connectionState' = "error"
            /\ logs' = addLog(lg, "system", <<"Baglanti baslatilamadi">>)
            /\ UNCHANGED <<tr, pr, sessionPromiseRef>>
       ELSE /\ connectionState' = st
            /\ logs' = lg
            /\ tr' = [tr EXCEPT ![a] = "opening"]
            /\ pr' = [pr EXCEPT ![a] = "pending"]
            /\ sessionPromiseRef' = a

\* getUserMedia resolves: the stream is kept, the input context is created and
\* initializeAudio suspends in inputCtx.resume().
MicGranted(a) ==
  /\ pc[a] = "mic"
  /\ stream' = [stream EXCEPT ![a] = "live"]
  /\ streamRef' = a
  /\ inCtx' = [inCtx EXCEPT ![a] = "created"]
  /\ pc' = [pc EXCEPT ![a] = "inResume"]
  /\ last' = Ev("MicGranted", a, NoMsg)
  /\ UNCHANGED <<apiKey, callerName, connectionState, logs, isMuted, inputAudioContextRef,
                 outputAudioContextRef, outputAnalyserRef, nextStartTimeRef, sourcesRef,
                 sessionPromiseRef, currentInputTranscriptionRef,
                 currentOutputTranscriptionRef>>
  /\ UNCHANGED <<capMuted, capName, outCtx, tr, pr, queued, decoding, now>>
  /\ UNCHANGED <<nAttempts, nMsgs, nChunks, epoch, started, sent, gIn, gOut, afterIntr>>

\* getUserMedia rejects: the catch of initializeAudio, then connectToGemini goes on.
MicFailed(a) ==
  /\ pc[a] = "mic"
  /\ \E throws \in BOOLEAN :
       liveConnect(a, "error", addLog(logs, "system", <<"Mikrofon hatasi">>), throws)
  /\ last' = Ev("MicFailed", a, NoMsg)
  /\ UNCHANGED <<apiKey, callerName, isMuted, inputAudioContextRef, outputAudioContextRef,
                 outputAnalyserRef, nextStartTimeRef, sourcesRef,
                 currentInputTranscriptionRef, currentOutputTranscriptionRef, streamRef>>
  /\ UNCHANGED <<capMuted, capName, stream, inCtx, outCtx, queued, decoding, now>>
  /\ UNCHANGED <<nAttempts, nMsgs, nChunks, epoch, started, sent, gIn, gOut, afterIntr>>

\* inputCtx.resume() resolves: the context is published, the script processor and
\* its onaudioprocess callback are attached, the output context is created and
\* initializeAudio suspends in outputCtx.resume().
InputResumed(a) ==
  /\ pc[a] = "inResume"
  /\ inputAudioContextRef' = a
  /\ inCtx' = [inCtx EXCEPT ![a] = "open"]
  /\ outCtx' = [outCtx EXCEPT ![a] = "created"]
  /\ pc' = [pc EXCEPT ![a] = "outResume"]
  /\ last' = Ev("InputResumed", a, NoMsg)
  /\ UNCHANGED <<apiKey, callerName, connectionState, logs, isMuted, outputAudioContextRef,
                 outputAnalyserRef, nextStartTimeRef, sourcesRef, sessionPromiseRef,
                 currentInputTranscriptionRef, currentOutputTranscriptionRef, streamRef>>
  /\ UNCHANGED <<capMuted, capName, stream, tr, pr, queued, decoding, now>>
  /\ UNCHANGED <<nAttempts, nMsgs, nChunks, epoch, started, sent, gIn, gOut, afterIntr>>

\* outputCtx.resume() resolves: the output context and analyser are published,
\* initializeAudio returns and connectToGemini opens the transport.
OutputResumed(a) ==
  /\ pc[a] = "outResume"
  /\ outputAudioContextRef' = a
  /\ outputAnalyserRef' = a
  /\ outCtx' = [outCtx EXCEPT ![a] = "open"]
  /\ \E throws \in BOOLEAN : liveConnect(a, connectionState, logs, throws)
  /\ last' = Ev("OutputResumed", a, NoMsg)
  /\ UNCHANGED <<apiKey, callerName, isMuted, inputAudioContextRef, nextStartTimeRef, sourcesRef,
                 currentInputTranscriptionRef, currentOutputTranscriptionRef, streamRef>>
  /\ UNCHANGED <<capMuted, capName, stream, inCtx, queued, decoding, now>>
  /\ UNCHANGED <<nAttempts, nMsgs, nChunks, epoch, started, sent, gIn, gOut, afterIntr>>

\* ------------------------------------------------------ transport events
\* The greeting of onopen when no caller name is known.
GenericGreeting == <<"TechCorp, ben Asli, size nasil yardimci olabilirim?">>

\* A greeting that never names the caller.
greetingUnnamed(name) == GenericGreeting

\* The agent entry of onopen: it names the caller when callerName is not empty.
greeting(name) ==
  IF name # NoName THEN <<"TechCorp, ben Asli. Merhaba", name>> ELSE GenericGreeting

\* callbacks.onopen (callerName is the one of the render that called connectToGemini)
OnOpen(a) ==
  /\ tr[a] = "opening"
  /\ tr' = [tr EXCEPT ![a] = "open"]
  /\ connectionState' = "connected"
  /\ logs' = addLog(addLog(logs, "system", <<"Hizli Baglanti Kuruldu">>),
                    "agent", greeting(capName[a]))
  /\ last' = Ev("OnOpen", a, NoMsg)
  /\ UNCHANGED <<apiKey, callerName, isMuted, inputAudioContextRef, outputAudioContextRef,
                 outputAnalyserRef, nextStartTimeRef, sourcesRef, sessionPromiseRef,
                 currentInputTranscriptionRef, currentOutputTranscriptionRef, streamRef>>
  /\ UNCHANGED <<pc, capMuted, capName, stream, inCtx, outCtx, pr, queued, decoding, now>>
  /\ UNCHANGED <<nAttempts, nMsgs, nChunks, epoch, started, sent, gIn, gOut, afterIntr>>

\* callbacks.onclose
OnClose(a) ==
  /\ tr[a] \in {"opening", "open", "errored"}
  /\ tr' = [tr EXCEPT ![a] = "closed"]
  /\ connectionState' = "disconnected"
  /\ logs' = addLog(logs, "system", <<"Baglanti kesildi">>)
  /\ last' = Ev("OnClose", a, NoMsg)
  /\ UNCHANGED <<apiKey, callerName, isMuted, inputAudioContextRef, outputAudioContextRef,
                 outputAnalyserRef, nextStartTimeRef, sourcesRef, sessionPromiseRef,
                 currentInputTranscriptionRef, currentOutputTranscriptionRef, streamRef>>
  /\ UNCHANGED <<pc, capMuted, capName, stream, inCtx, outCtx, pr, queued, decoding, now>>
  /\ UNCHANGED <<nAttempts, nMsgs, nChunks, epoch, started, sent, gIn, gOut, afterIntr>>

\* callbacks.onerror
OnError(a) ==
  /\ tr[a] \in {"opening", "open"}
  /\ tr' = [tr EXCEPT ![a] = "errored"]
  /\ connectionState' = "error"
  /\ logs' = addLog(logs, "system", <<"Baglanti hatasi olustu">>)
  /\ last' = Ev("OnError", a, NoMsg)
  /\ UNCHANGED <<apiKey, callerName, isMuted, inputAudioContextRef, outputAudioContextRef,
                 outputAnalyserRef, nextStartTimeRef, sourcesRef, sessionPromiseRef,
                 currentInputTranscriptionRef, currentOutputTranscriptionRef, streamRef>>
  /\ UNCHANGED <<pc, capMuted, capName, stream, inCtx, outCtx, pr, queued, decoding, now>>
  /\ UNCHANGED <<nAttempts, nMsgs, nChunks, epoch, started, sent, gIn, gOut, afterIntr>>

\* session.sendRealtimeInput as called by one .then callback of onaudioprocess.
sendRealtimeInput(s, chunk, late) ==
  Append(s, [muted |-> chunk.muted, late |-> late, st |-> connectionState])

RECURSIVE sendAll(_, _)
sendAll(s, q) ==
  IF q = <<>> THEN s ELSE sendAll(sendRealtimeInput(s, Head(q), TRUE), Tail(q))

\* The session promise resolves (the transport has opened): every .then callback
\* registered while it was pending runs, in registration order.
SessionResolved(a) ==
  /\ pr[a] = "pending"
  /\ tr[a] = "open"
  /\ pr' = [pr EXCEPT ![a] = "resolved"]
  /\ sent' = sendAll(sent, queued[a])
  /\ queued' = [queued EXCEPT ![a] = <<>>]
  /\ last' = Ev("SessionResolved", a, NoMsg)
  /\ UNCHANGED progVars
  /\ UNCHANGED <<pc, capMuted, capName, stream, inCtx, outCtx, tr, decoding, now>>
  /\ UNCHANGED <<nAttempts, nMsgs, nChunks, epoch, started, gIn, gOut, afterIntr>>

\* The session promise rejects (the transport failed to open): the .catch of
\* every waiting callback logs a warning; no callback of connectToGemini runs.
SessionRejected(a) ==
  /\ pr[a] = "pending"
  /\ tr[a] = "opening"
  /\ pr' = [pr EXCEPT ![a] = "rejected"]
  /\ tr' = [tr EXCEPT ![a] = "failed"]
  /\ queued' = [queued EXCEPT ![a] = <<>>]
  /\ last' = Ev("SessionRejected", a, NoMsg)
  /\ UNCHANGED progVars
  /\ UNCHANGED <<pc, capMuted, capName, stream, inCtx, outCtx, decoding, now>>
  /\ UNCHANGED <<nAttempts, nMsgs, nChunks, epoch, started, sent, gIn, gOut, afterIntr>>

\* ------------------------------------------------------- capture callback
\* scriptProcessor.onaudioprocess of the pipeline built by attempt a. It runs
\* for as long as that attempt's input context is open.
Capture(a) ==
  /\ inCtx[a] = "open"
  /\ nChunks < MaxChunks
  /\ last' = Ev("Capture", a, NoMsg)
  /\ IF capMuted[a] \/ sessionPromiseRef = 0
       THEN UNCHANGED <<queued, sent, nChunks>>
       ELSE LET p == sessionPromiseRef
                chunk == [muted |-> isMuted]
            IN /\ nChunks' = nChunks + 1
               /\ CASE pr[p] = "resolved" ->
                         /\ sent' = sendRealtimeInput(sent, chunk, FALSE)
                         /\ UNCHANGED queued
                    [] pr[p] = "pending" ->
                         /\ queued' = [queued EXCEPT ![p] = Append(@, chunk)]
                         /\ UNCHANGED sent
                    [] OTHER -> UNCHANGED <<queued, sent>>
  /\ UNCHANGED progVars
  /\ UNCHANGED <<pc, capMuted, capName, stream, inCtx, outCtx, tr, pr, decoding, now>>
  /\ UNCHANGED <<nAttempts, nMsgs, epoch, started, gIn, gOut, afterIntr>>

\* setIsMuted
SetMuted ==
  /\ isMuted' = ~isMuted
  /\ last' = Ev("SetMuted", 0, NoMsg)
  /\ UNCHANGED <<apiKey, callerName, connectionState, logs, inputAudioContextRef,
                 outputAudioContextRef, outputAnalyserRef, nextStartTimeRef, sourcesRef,
                 sessionPromiseRef, currentInputTranscriptionRef,
                 currentOutputTranscriptionRef, streamRef>>
  /\ UNCHANGED envVars
  /\ UNCHANGED <<nAttempts, nMsgs, nChunks, epoch, started, sent, gIn, gOut, afterIntr>>

\* setCallerName, from the caller-name input, which is enabled only while the
\* state is disconnected.
SetCallerName ==
  /\ connectionState = "disconnected"
  /\ \E n \in Names \ {callerName} : callerName' = n
  /\ last' = Ev("SetCallerName", 0, NoMsg)
  /\ UNCHANGED <<apiKey, connectionState, logs, isMuted, inputAudioContextRef,
                 outputAudioContextRef, outputAnalyserRef, nextStartTimeRef, sourcesRef,
                 sessionPromiseRef, currentInputTranscriptionRef,
                 currentOutputTranscriptionRef, streamRef>>
  /\ UNCHANGED envVars
  /\ UNCHANGED <<nAttempts, nMsgs, nChunks, epoch, started, sent, gIn, gOut, afterIntr>>

\* ------------------------------------------------------------- onmessage
\* Transcription: the else-if of the handler.
accumulateOutput(acc, m) == IF m.out # NoText THEN acc \o m.out ELSE acc

accumulateInput(acc, m) ==
  IF m.out # NoText THEN acc
  ELSE IF m.inp # NoText THEN acc \o m.inp ELSE acc

\* flushTurn without its emptiness checks.
flushTurnUnchecked(l, inp, out) == addLog(addLog(l, "user", inp), "agent", out)

\* turnComplete: a log entry per non-empty accumulator, user first.
flushTurn(l, inp, out) ==
  LET l1 == IF inp # NoText THEN addLog(l, "user", inp) ELSE l
  IN IF out # NoText THEN addLog(l1, "agent", out) ELSE l1

\* decodeAudioData(decode(base64Audio), ctx, 24000, 1) fails on a malformed fragment.
decodeThrows(audio) == audio = BadAudio

\* The audio block is entered: a fragment is present and the output refs are set.
hasAudio(m) == m.audio # NoAudio /\ outputAudioContextRef # 0 /\ outputAnalyserRef # 0

\* callbacks.onmessage, up to its await of decodeAudioData when the message
\* carries audio and to its end otherwise.
OnMessage(a, m) ==
  /\ tr[a] = "open"
  /\ nMsgs < MaxMsgs
  /\ nMsgs' = nMsgs + 1
  /\ last' = Ev("OnMessage", a, m)
  /\ LET out1 == accumulateOutput(currentOutputTranscriptionRef, m)
         in1 == accumulateInput(currentInputTranscriptionRef, m)
     IN IF m.tc
          THEN /\ logs' = flushTurn(logs, in1, out1)
               /\ currentInputTranscriptionRef' = NoText
               /\ currentOutputTranscriptionRef' = NoText
               /\ gIn' = [b \in Attempts |-> NoText]
               /\ gOut' = [b \in Attempts |-> NoText]
          ELSE /\ logs' = logs
               /\ currentInputTranscriptionRef' = in1
               /\ currentOutputTranscriptionRef' = out1
               /\ gIn' = [gIn EXCEPT ![a] = @ \o m.inp]
               /\ gOut' = [gOut EXCEPT ![a] = @ \o m.out]
  /\ IF hasAudio(m)
       THEN /\ nextStartTimeRef' = Max(nextStartTimeRef, now)
            /\ decoding' = decoding \cup
                 {[n |-> nMsgs + 1, a |-> a, ctx |-> outputAudioContextRef,
                   audio |-> m.audio, intr |-> m.intr, arr |-> now, ep |-> epoch,
                   st |-> connectionState, first |-> afterIntr]}
            /\ afterIntr' = FALSE
            /\ UNCHANGED <<sourcesRef, epoch>>
       ELSE /\ IF m.intr
                 THEN /\ sourcesRef' = {}
                      /\ nextStartTimeRef' = 0
                      /\ epoch' = epoch + 1
                      /\ afterIntr' = TRUE
                 ELSE UNCHANGED <<sourcesRef, nextStartTimeRef, epoch, afterIntr>>
            /\ UNCHANGED decoding
  /\ UNCHANGED <<apiKey, callerName, connectionState, isMuted, inputAudioContextRef,
                 outputAudioContextRef, outputAnalyserRef, sessionPromiseRef, streamRef>>
  /\ UNCHANGED <<pc, capMuted, capName, stream, inCtx, outCtx, tr, pr, queued, now>>
  /\ UNCHANGED <<nAttempts, nChunks, started, sent>>

\* The continuation of onmessage after decodeAudioData: the source is created on
\* the context read before the await, connected to the analyser read now, started
\* at nextStartTime, and then the interrupted flag of the same message is handled.
\* A throw (the decode, or connecting nodes of two contexts) ends the handler.
DecodeDone(d) ==
  /\ d \in decoding
  /\ decoding' = decoding \ {d}
  /\ last' = Ev(IF decodeThrows(d.audio) \/ outputAnalyserRef # d.ctx
                  THEN "DecodeThrew" ELSE "DecodeDone",
                d.a, [NoMsg EXCEPT !.audio = d.audio, !.intr = d.intr])
  /\ IF decodeThrows(d.audio) \/ outputAnalyserRef # d.ctx
       THEN UNCHANGED <<nextStartTimeRef, sourcesRef, started, epoch, afterIntr>>
       ELSE /\ started' = Append(started,
                 [n |-> d.n, a |-> d.a, start |-> nextStartTimeRef, dur |-> d.audio,
                  arr |-> d.arr, at |-> now, ep |-> d.ep, eps |-> epoch, st |-> d.st,
                  first |-> d.first])
            /\ IF d.intr
                 THEN /\ sourcesRef' = {}
                      /\ nextStartTimeRef' = 0
                      /\ epoch' = epoch + 1
                      /\ afterIntr' = TRUE
                 ELSE /\ sourcesRef' = sourcesRef \cup
                           {[n |-> d.n, start |-> nextStartTimeRef, dur |-> d.audio]}
                      /\ nextStartTimeRef' = advance(nextStartTimeRef, d.audio)
                      /\ UNCHANGED <<epoch, afterIntr>>
  /\ UNCHANGED <<apiKey, callerName, connectionState, logs, isMuted, inputAudioContextRef,
                 outputAudioContextRef, outputAnalyserRef, sessionPromiseRef,
                 currentInputTranscriptionRef, currentOutputTranscriptionRef, streamRef>>
  /\ UNCHANGED <<pc, capMuted, capName, stream, inCtx, outCtx, tr, pr, queued, now>>
  /\ UNCHANGED <<nAttempts, nMsgs, nChunks, sent, gIn, gOut>>

\* The 'ended' listener of a source whose playback has run to its end.
Ended(s) ==
  /\ s \in sourcesRef
  /\ now >= s.start + s.dur
  /\ sourcesRef' = sourcesRef \ {s}
  /\ last' = Ev("Ended", 0, NoMsg)
  /\ UNCHANGED <<apiKey, callerName, connectionState, logs, isMuted, inputAudioContextRef,
                 outputAudioContextRef, outputAnalyserRef, nextStartTimeRef,
                 sessionPromiseRef, currentInputTranscriptionRef,
                 currentOutputTranscriptionRef, streamRef>>
  /\ UNCHANGED envVars
  /\ UNCHANGED <<nAttempts, nMsgs, nChunks, epoch, started, sent, gIn, gOut, afterIntr>>

\* ctx.currentTime advances.
Tick ==
  /\ now < MaxClock
  /\ now' = now + 1
  /\ last' = Ev("Tick", 0, NoMsg)
  /\ UNCHANGED progVars
  /\ UNCHANGED <<pc, capMuted, capName, stream, inCtx, outCtx, tr, pr, queued, decoding>>
  /\ UNCHANGED <<nAttempts, nMsgs, nChunks, epoch, started, sent, gIn, gOut, afterIntr>>

\* ------------------------------------------------------------- disconnect
\* track.stop() on every track of a stream: a track that has ended stays ended.
stopTracks(streams, ref) ==
  IF ref # 0 /\ streams[ref] = "live" THEN [streams EXCEPT ![ref] = "stopped"] ELSE streams

\* ctx.close(): closing a context that is closed already is rejected by the platform.
closeContext(ctxs, ref) ==
  IF ref = 0 THEN ctxs
  ELSE [ctxs EXCEPT ![ref] = IF @ = "closed" THEN "closedTwice" ELSE "closed"]

\* A context ref that is left in place after its context was closed.
keepRef(ref) == ref

\* xxxAudioContextRef.current = null
discardRef(ref) == 0

\* The session handle and the devices, as the statements of disconnect see them.
Resources == [h |-> sessionPromiseRef, s |-> stream, i |-> inCtx, o |-> outCtx]

\* The releases of disconnect with the session handle cleared last.
releaseThenInvalidate(x) ==
  LET x1 == [x EXCEPT !.s = stopTracks(x.s, streamRef)]
      x2 == [x1 EXCEPT !.i = closeContext(x1.i, inputAudioContextRef)]
      x3 == [x2 EXCEPT !.o = closeContext(x2.o, outputAudioContextRef)]
      x4 == [x3 EXCEPT !.h = 0]
  IN <<x1, x2, x3, x4>>

\* The first four statements of disconnect, in their order, each applied to the
\* result of the one before: the handle is cleared, the tracks are stopped, the
\* input context is closed, the output context is closed.
invalidateThenRelease(x) ==
  LET x1 == [x EXCEPT !.h = 0]
      x2 == [x1 EXCEPT !.s = stopTracks(x1.s, streamRef)]
      x3 == [x2 EXCEPT !.i = closeContext(x2.i, inputAudioContextRef)]
      x4 == [x3 EXCEPT !.o = closeContext(x3.o, outputAudioContextRef)]
  IN <<x1, x2, x3, x4>>

\* The body of disconnect: it has no guard of its own.
disconnect(op) ==
  /\ LET x == invalidateThenRelease(Resources)[4]
     IN /\ sessionPromiseRef' = x.h
        /\ stream' = x.s
        /\ inCtx' = x.i
        /\ outCtx' = x.o
  /\ inputAudioContextRef' = discardRef(inputAudioContextRef)
  /\ outputAudioContextRef' = discardRef(outputAudioContextRef)
  /\ connectionState' = "disconnected"
  /\ logs' = <<>>
  /\ currentInputTranscriptionRef' = NoText
  /\ currentOutputTranscriptionRef' = NoText
  /\ nextStartTimeRef' = 0
  /\ sourcesRef' = {}
  /\ epoch' = epoch + 1
  /\ gIn' = [b \in Attempts |-> NoText]
  /\ gOut' = [b \in Attempts |-> NoText]
  /\ last' = Ev(op, 0, NoMsg)
  /\ UNCHANGED <<apiKey, callerName, isMuted, outputAnalyserRef, streamRef>>
  /\ UNCHANGED <<pc, capMuted, capName, tr, pr, queued, decoding, now>>
  /\ UNCHANGED <<nAttempts, nMsgs, nChunks, started, sent, afterIntr>>

\* The disconnect button replaces the connect button in the other two states.
Disconnect ==
  /\ ~CanConnect
  /\ disconnect("Disconnect")

\* disconnect invoked although the state is disconnected already (the function is
\* reachable only through the button, which is not rendered in that state).
DisconnectAgain ==
  /\ connectionState = "disconnected"
  /\ epoch < MaxEpochs
  /\ disconnect("DisconnectAgain")

\* ---------------------------------------------------------- specification
\* The session life cycle: connect attempts, transport events, disconnect.
Lifecycle ==
  \/ ConnectNoKey
  \/ Connect
  \/ \E a \in Attempts : MicGranted(a)
  \/ \E a \in Attempts : MicFailed(a)
  \/ \E a \in Attempts : InputResumed(a)
  \/ \E a \in Attempts : OutputResumed(a)
  \/ \E a \in Attempts : OnOpen(a)
  \/ \E a \in Attempts : OnClose(a)
  \/ \E a \in Attempts : OnError(a)
  \/ \E a \in Attempts : SessionResolved(a)
  \/ \E a \in Attempts : SessionRejected(a)
  \/ Disconnect

\* Messages that carry only transcription fields, and only playback fields.
TextMsgs == {m \in Messages : m.audio = NoAudio /\ ~m.intr}
AudioMsgs == {m \in Messages : m.out = NoText /\ m.inp = NoText /\ ~m.tc}

Playback ==
  \/ \E d \in decoding : DecodeDone(d)
  \/ \E s \in sourcesRef : Ended(s)
  \/ Tick

CaptureSide ==
  \/ \E a \in Attempts : Capture(a)
  \/ SetMuted

\* The whole program.
Next ==
  \/ Lifecycle
  \/ \E a \in Attempts : \E m \in Messages : OnMessage(a, m)
  \/ Playback
  \/ CaptureSide
  \/ SetCallerName

Spec == Init /\ [][Next]_vars

\* The program with the environment restricted to one kind of traffic and to
\* fewer events. Every behaviour of these is a behaviour of Spec.
NextSession == Lifecycle

SpecSession == Init /\ [][NextSession]_vars

\* A connect attempt whose devices are granted.
Connected ==
  \/ Connect
  \/ \E a \in Attempts : MicGranted(a)
  \/ \E a \in Attempts : InputResumed(a)
  \/ \E a \in Attempts : OutputResumed(a)
  \/ \E a \in Attempts : OnOpen(a)

NextTranscript ==
  \/ Connect /\ nAttempts' <= TranscriptAttempts
  \/ \E a \in Attempts : MicGranted(a)
  \/ \E a \in Attempts : InputResumed(a)
  \/ \E a \in Attempts : OutputResumed(a)
  \/ \E a \in Attempts : OnOpen(a)
  \/ \E a \in Attempts : OnClose(a)
  \/ \E a \in Attempts : OnError(a)
  \/ \E a \in Attempts : \E m \in TextMsgs : OnMessage(a, m)

SpecTranscript == Init /\ [][NextTranscript]_vars

\* Transcript traffic in which a message carries at most one fragment.
TurnMsgs == {m \in TextMsgs : m.out = NoText \/ m.inp = NoText}

NextTurns ==
  \/ Connected
  \/ \E a \in Attempts : OnClose(a)
  \/ \E a \in Attempts : OnError(a)
  \/ \E a \in Attempts : \E m \in TurnMsgs : OnMessage(a, m)

SpecTurns == Init /\ [][NextTurns]_vars

NextPlayback ==
  \/ Connect /\ nAttempts' <= PlaybackAttempts
  \/ \E a \in Attempts : MicGranted(a)
  \/ \E a \in Attempts : InputResumed(a)
  \/ \E a \in Attempts : OutputResumed(a)
  \/ \E a \in Attempts : OnOpen(a)
  \/ Disconnect
  \/ \E a \in Attempts : \E m \in AudioMsgs : OnMessage(a, m)
  \/ Playback

SpecPlayback == Init /\ [][NextPlayback]_vars

NextCapture ==
  \/ Connect /\ nAttempts' <= CaptureAttempts
  \/ \E a \in Attempts : MicGranted(a)
  \/ \E a \in Attempts : MicFailed(a)
  \/ \E a \in Attempts : InputResumed(a)
  \/ \E a \in Attempts : OutputResumed(a)
  \/ \E a \in Attempts : OnOpen(a)
  \/ \E a \in Attempts : OnClose(a)
  \/ \E a \in Attempts : OnError(a)
  \/ \E a \in Attempts : SessionResolved(a)
  \/ \E a \in Attempts : SessionRejected(a)
  \/ Disconnect
  \/ CaptureSide

SpecCapture == Init /\ [][NextCapture]_vars

\* The life cycle with transcript traffic, and disconnect also invoked when the
\* state is disconnected already.
NextRedisconnect ==
  \/ Connect /\ nAttempts' <= RedisconnectAttempts
  \/ \E a \in Attempts : MicGranted(a)
  \/ \E a \in Attempts : InputResumed(a)
  \/ \E a \in Attempts : OutputResumed(a)
  \/ \E a \in Attempts : OnOpen(a)
  \/ \E a \in Attempts : OnClose(a)
  \/ \E a \in Attempts : OnError(a)
  \/ \E a \in Attempts : \E m \in TurnMsgs : OnMessage(a, m)
  \/ Disconnect
  \/ DisconnectAgain

SpecRedisconnect == Init /\ [][NextRedisconnect]_vars

\* The life cycle of granted attempts with the caller-name input, with and
\* without an API key.
NextGreeting ==
  \/ SetCallerName
  \/ ConnectNoKey
  \/ Connect /\ nAttempts' <= GreetingAttempts
  \/ \E a \in Attempts : MicGranted(a)
  \/ \E a \in Attempts : InputResumed(a)
  \/ \E a \in Attempts : OutputResumed(a)
  \/ \E a \in Attempts : OnOpen(a)
  \/ \E a \in Attempts : OnClose(a)
  \/ \E a \in Attempts : OnError(a)
  \/ Disconnect

SpecGreeting == Init /\ [][NextGreeting]_vars

\* One session that is never disconnected, with playback traffic: the scheduler
\* is reset by interruptions only.
NextInterrupt ==
  \/ Connect /\ nAttempts' <= PlaybackAttempts
  \/ \E a \in Attempts : MicGranted(a)
  \/ \E a \in Attempts : InputResumed(a)
  \/ \E a \in Attempts : OutputResumed(a)
  \/ \E a \in Attempts : OnOpen(a)
  \/ \E a \in Attempts : \E m \in AudioMsgs : OnMessage(a, m)
  \/ Playback

SpecInterrupt == Init /\ [][NextInterrupt]_vars

\* ------------------------------------------------------------------ claims
\* Two scheduled fragments that arrived and were scheduled with no interruption
\* and no disconnect in between (from the arrival of one to the scheduling of both).
SameRun(x, y) == x.ep = y.ep /\ x.eps = x.ep /\ y.eps = y.ep

\* C1: fragments received while connected with no interruption or disconnect in
\* between get start times that respect the order they were received in: the
\* fragment received later starts no earlier than the end of the one received
\* before it (start(i+1) >= start(i) + d(i)).
C1_StartsFollowArrival ==
  \A i, j \in 1..Len(started) :
    (/\ started[i].n < started[j].n
     /\ started[i].st = "connected" /\ started[j].st = "connected"
     /\ SameRun(started[i], started[j]))
    => started[j].start >= started[i].start + started[i].dur

\* C2: fragments of one session are started in arrival order, whatever the decode
\* latencies: of two started fragments the one that arrived first was started first.
C2_ScheduledInArrivalOrder ==
  \A i, j \in 1..Len(started) :
    (i < j /\ started[i].a = started[j].a) => started[i].n < started[j].n

\* C3: when the handling of an interrupted message completes the active set is
\* empty and nextStartTime is 0, and the audio fragment that arrives next is
\* started at the clock time of its arrival (unless a further interruption or a
\* disconnect comes before it is started).
C3_InterruptionResets ==
  /\ (/\ last.m.intr
      /\ \/ last.op = "DecodeDone"
         \/ last.op = "OnMessage" /\ ~hasAudio(last.m))
     => (sourcesRef = {} /\ nextStartTimeRef = 0)
  /\ \A i \in 1..Len(started) :
       (started[i].first /\ started[i].eps = started[i].ep)
       => started[i].start = started[i].arr

\* C4: a chunk is handed to the send operation only while the connection state
\* is connecting or connected.
C4_SendOnlyWhileLive ==
  \A i \in 1..Len(sent) : sent[i].st \in {"connecting", "connected"}

\* C5: a chunk captured while the session promise is still pending is dropped: it
\* is never handed to the send operation later.
C5_NoBacklog == \A i \in 1..Len(sent) : ~sent[i].late

Appended == SubSeq(logs', Len(logs) + 1, Len(logs'))

EntriesOf(l, sender) == {k \in 1..Len(l) : l[k].sender = sender}

\* C7: on a turn-complete signal each accumulator that is non-empty (with the
\* fragment of the same message appended) produces exactly one log entry, the
\* inbound one with sender user and the outbound one with sender agent, each
\* empty accumulator produces none, and both accumulators are empty afterwards.
C7_TurnCompleteFlush ==
  [][(last'.op = "OnMessage" /\ last'.m.tc) =>
       LET inp == accumulateInput(currentInputTranscriptionRef, last'.m)
           out == accumulateOutput(currentOutputTranscriptionRef, last'.m)
           new == Appended
       IN /\ Len(logs') >= Len(logs)
          /\ SubSeq(logs', 1, Len(logs)) = logs
          /\ Cardinality(EntriesOf(new, "user")) = (IF inp # NoText THEN 1 ELSE 0)
          /\ Cardinality(EntriesOf(new, "agent")) = (IF out # NoText THEN 1 ELSE 0)
          /\ EntriesOf(new, "system") = {}
          /\ \A k \in EntriesOf(new, "user") : new[k].text = inp
          /\ \A k \in EntriesOf(new, "agent") : new[k].text = out
          /\ currentInputTranscriptionRef' = NoText
          /\ currentOutputTranscriptionRef' = NoText]_vars

\* A turn-complete has just flushed a non-empty inbound accumulator while the
\* outbound one was empty: the last entry is the caller's, both are now empty.
C7_Witness ==
  /\ last.op = "OnMessage" /\ last.m.tc /\ last.m.inp = NoText /\ last.m.out = NoText
  /\ logs # <<>>
  /\ logs[Len(logs)] = LogEntry("user", <<"a", "b">>)
  /\ currentInputTranscriptionRef = NoText
  /\ currentOutputTranscriptionRef = NoText

\* C8: the text of the entry emitted for a direction at turn-complete is the
\* concatenation, in arrival order, of exactly the fragments of that direction
\* received in the session of the turn-complete since the previous flush.
C8_FlushedTextIsSessionText ==
  [][(last'.op = "OnMessage" /\ last'.m.tc) =>
       LET a == last'.a
           new == Appended
       IN /\ \A k \in EntriesOf(new, "user") : new[k].text = gIn[a] \o last'.m.inp
          /\ \A k \in EntriesOf(new, "agent") : new[k].text = gOut[a] \o last'.m.out]_vars

\* C9: every message appends the input fragment it carries to the inbound
\* accumulator and the output fragment it carries to the outbound accumulator
\* (stated for the messages that do not also flush).
C9_BothFragmentsAccumulated ==
  [][(last'.op = "OnMessage" /\ ~last'.m.tc) =>
       /\ currentInputTranscriptionRef' = currentInputTranscriptionRef \o last'.m.inp
       /\ currentOutputTranscriptionRef' = currentOutputTranscriptionRef \o last'.m.out]_vars

\* C10: once the connection state is error it stays error until a new connect
\* request is made.
C10_ErrorIsTerminal ==
  [][(connectionState = "error" /\ connectionState' # "error") => last'.op = "Connect"]_vars

\* The connect call of the attempt of the step threw: no transport exists for it.
OpenThrew == last'.op \in {"OutputResumed", "MicFailed"} /\ tr'[last'.a] = "none"

\* C11: a microphone acquisition failure ends the connect attempt: the state is
\* error, exactly one system entry is appended, and the attempt neither opens the
\* transport nor registers a session handle.
C11_MicFailureIsFatal ==
  [][last'.op = "MicFailed" =>
       /\ connectionState' = "error"
       /\ Len(Appended) = 1
       /\ EntriesOf(Appended, "system") = {1}
       /\ tr'[last'.a] = "none"
       /\ pr'[last'.a] = "none"
       /\ sessionPromiseRef' # last'.a]_vars

\* C12: when the open of the transport of the current attempt fails while the
\* state is connecting, by a throw of the connect call or by a rejection of the
\* session promise, the state becomes error and a system entry is appended.
C12_OpenFailureEntersError ==
  [][(/\ connectionState = "connecting"
      /\ last'.a = nAttempts
      /\ (OpenThrew \/ last'.op = "SessionRejected")) =>
       /\ connectionState' = "error"
       /\ EntriesOf(Appended, "system") # {}]_vars

\* A device an attempt acquired and has not released.
Held(dev) == {a \in Attempts : dev[a] \in {"live", "created", "open"}}

\* C13: right after a disconnect request the state is disconnected, the session
\* handle is null, the log list and both accumulators are empty, nextStartTime is
\* 0, no playback source is active, no microphone stream is live and no audio
\* context is left open or referenced.
C13_DisconnectPostState ==
  [][(last'.op = "Disconnect" /\ connectionState # "disconnected") =>
       /\ connectionState' = "disconnected"
       /\ sessionPromiseRef' = 0
       /\ logs' = <<>>
       /\ currentInputTranscriptionRef' = NoText
       /\ currentOutputTranscriptionRef' = NoText
       /\ nextStartTimeRef' = 0
       /\ sourcesRef' = {}
       /\ inputAudioContextRef' = 0
       /\ outputAudioContextRef' = 0
       /\ Held(stream)' = {}
       /\ Held(inCtx)' = {}
       /\ Held(outCtx)' = {}]_vars

C15_OneSessionHoldsDevices ==
  /\ Cardinality(Held(stream)) <= 1
  /\ Cardinality(Held(inCtx)) <= 1
  /\ Cardinality(Held(outCtx)) <= 1

\* C16: a transport close or error event destroys the session as disconnect does:
\* after it the session handle is null, the stream and the input context of that
\* attempt are released (no capture callback runs), nextStartTime is 0, no
\* playback source is active and both accumulators are empty.
C16_CloseAndErrorTearDown ==
  [][last'.op \in {"OnClose", "OnError"} =>
       /\ sessionPromiseRef' = 0
       /\ last'.a \notin Held(stream)'
       /\ last'.a \notin Held(inCtx)'
       /\ nextStartTimeRef' = 0
       /\ sourcesRef' = {}
       /\ currentInputTranscriptionRef' = NoText
       /\ currentOutputTranscriptionRef' = NoText]_vars

C18_DecodeFailureIsLocal ==
  [][(last'.op = "DecodeThrew" /\ decodeThrows(last'.m.audio)) =>
       /\ started' = started
       /\ connectionState' = connectionState
       /\ IF last'.m.intr
            THEN sourcesRef' = {} /\ nextStartTimeRef' = 0
            ELSE sourcesRef' = sourcesRef /\ nextStartTimeRef' = nextStartTimeRef]_vars

\* The step handles an interruption to its end, or is a disconnect.
ResetStep ==
  \/ last'.op \in {"Disconnect", "DisconnectAgain"}
  \/ last'.op = "DecodeDone" /\ last'.m.intr
  \/ last'.op = "OnMessage" /\ last'.m.intr /\ ~hasAudio(last'.m)

\* C19: nextStartTime never decreases in a step, except in the steps that handle
\* an interruption or a disconnect, and those leave it at 0.
C19_NextStartTimeMonotone ==
  [][IF ResetStep THEN nextStartTimeRef' = 0
                  ELSE nextStartTimeRef' >= nextStartTimeRef]_vars

\* A fragment that carried the interrupted flag was started at a later time than
\* 0 and the handler then reset nextStartTime to 0.
C19_Witness ==
  /\ last.op = "DecodeDone" /\ last.m.intr
  /\ started # <<>>
  /\ started[Len(started)].start > 0
  /\ nextStartTimeRef = 0

\* The fragment started as number j was scheduled before the end time of the one
\* started just before it, with no interruption or disconnect since then.
Adjoining(j) ==
  /\ started[j].eps = started[j - 1].eps
  /\ started[j].at < started[j - 1].start + started[j - 1].dur

\* C20: a fragment that arrives and is scheduled before the end time of the
\* fragment scheduled before it, with no interruption in between, starts exactly
\* at that fragment's start time plus its duration.
C20_Gapless ==
  \A j \in 2..Len(started) :
    Adjoining(j) => started[j].start = started[j - 1].start + started[j - 1].dur

\* Two fragments of duration 1 have been started back to back: the second was
\* scheduled while the first was still playing and starts where the first ends.
C20_Witness ==
  /\ Len(started) >= 2
  /\ Adjoining(2)
  /\ started[1].dur = 1 /\ started[2].dur = 1
  /\ started[2].start = started[1].start + 1
  /\ started[1].n < started[2].n

\* C21: when the transport of the current attempt opens while the state is
\* connecting, the state becomes connected and exactly two entries are appended,
\* a system entry and then an agent greeting; the greeting contains the caller
\* name when one is set and is the generic greeting otherwise.
C21_OpenLogsGreeting ==
  [][(last'.op = "OnOpen" /\ connectionState = "connecting" /\ last'.a = nAttempts) =>
       /\ connectionState' = "connected"
       /\ Len(Appended) = 2
       /\ SubSeq(logs', 1, Len(logs)) = logs
       /\ Appended[1].sender = "system"
       /\ Appended[2].sender = "agent"
       /\ IF callerName # NoName
            THEN \E k \in 1..Len(Appended[2].text) : Appended[2].text[k] = callerName
            ELSE Appended[2].text = GenericGreeting]_vars

\* The transport has opened for a caller whose name had been entered: the last
\* two entries are the system entry and a greeting that names the caller.
C21_Witness ==
  /\ last.op = "OnOpen" /\ last.a = nAttempts
  /\ callerName = "Ahmet"
  /\ connectionState = "connected"
  /\ Len(logs) >= 2
  /\ logs[Len(logs) - 1].sender = "system"
  /\ logs[Len(logs)] = LogEntry("agent", <<"TechCorp, ben Asli. Merhaba", "Ahmet">>)

\* C22: the connection state becomes connected only by an open event taken in
\* the connecting state: no step leads from disconnected or error to connected.
C22_ConnectedOnlyFromConnecting ==
  [][(connectionState # "connected" /\ connectionState' = "connected") =>
       (last'.op = "OnOpen" /\ connectionState = "connecting")]_vars

\* C23: no playback source is started with a start time earlier than the output
\* clock at the moment of the start call, however far the clock has advanced
\* while the fragment was being decoded.
C23_StartNotBeforeClock ==
  \A i \in 1..Len(started) : started[i].start >= started[i].at

\* C24: a fragment whose message arrived before an interruption was handled is
\* not started once that interruption has been handled (stated for a session
\* that is not disconnected: every reset between arrival and start is an
\* interruption).
C24_NoStaleFragmentAfterInterruption ==
  \A i \in 1..Len(started) : started[i].eps = started[i].ep

\* Callbacks of a session and continuations of its connect attempt.
LateEvents ==
  {"OnOpen", "OnMessage", "OnClose", "OnError", "MicGranted", "MicFailed",
   "InputResumed", "OutputResumed", "DecodeDone"}

\* C25: an event of the torn-down session that arrives after a disconnect request
\* (stated for the first event after it) changes nothing: the state stays
\* disconnected, the log list and both accumulators stay empty, the session
\* handle stays null, no device is acquired and no playback source is created.
C25_LateEventsChangeNothing ==
  [][(last.op = "Disconnect" /\ last'.op \in LateEvents) =>
       /\ connectionState' = "disconnected"
       /\ logs' = <<>>
       /\ currentInputTranscriptionRef' = NoText
       /\ currentOutputTranscriptionRef' = NoText
       /\ sessionPromiseRef' = 0
       /\ Held(stream)' \subseteq Held(stream)
       /\ Held(inCtx)' \subseteq Held(inCtx)
       /\ Held(outCtx)' \subseteq Held(outCtx)
       /\ sourcesRef' = {}
       /\ started' = started]_vars

\* The devices held in a resource record.
HeldIn(x) == <<Held(x.s), Held(x.i), Held(x.o)>>

C27_RequestsGuardedByState ==
  [][/\ last'.op \in {"Connect", "ConnectNoKey"} =>
          connectionState \in {"disconnected", "error"}
     /\ last'.op = "Disconnect" => connectionState \in {"connecting", "connected"}
     /\ connectionState \in {"connecting", "connected"} => nAttempts' = nAttempts]_vars

\* A second connect attempt has just started, after the first one had ended in
\* the error or the disconnected state.
C27_Witness ==
  /\ last.op = "Connect"
  /\ last.a = 2
  /\ connectionState = "connecting"
  /\ pc[1] = "done"

\* C28: a connect request without an API key appends exactly one entry, a system
\* entry, and changes nothing else: state, session handle, contexts, stream,
\* nextStartTime, active set and accumulators are unchanged and no connect
\* attempt or transport is started.
C28_NoKeyOnlyLogs ==
  [][last'.op = "ConnectNoKey" =>
       /\ Len(Appended) = 1
       /\ SubSeq(logs', 1, Len(logs)) = logs
       /\ Appended[1].sender = "system"
       /\ connectionState' = connectionState
       /\ sessionPromiseRef' = sessionPromiseRef
       /\ inputAudioContextRef' = inputAudioContextRef
       /\ outputAudioContextRef' = outputAudioContextRef
       /\ outputAnalyserRef' = outputAnalyserRef
       /\ streamRef' = streamRef
       /\ nextStartTimeRef' = nextStartTimeRef
       /\ sourcesRef' = sourcesRef
       /\ currentInputTranscriptionRef' = currentInputTranscriptionRef
       /\ currentOutputTranscriptionRef' = currentOutputTranscriptionRef
       /\ envVars' = envVars
       /\ nAttempts' = nAttempts]_vars

\* Without an API key a connect request has been made: the state is still
\* disconnected, one system entry is logged and no attempt has started.
C28_Witness ==
  /\ last.op = "ConnectNoKey"
  /\ ~apiKey
  /\ logs = <<LogEntry("system", <<"API Key eksik">>)>>
  /\ connectionState = "disconnected"
  /\ nAttempts = 0
  /\ sessionPromiseRef = 0

====
